---- MODULE Spec2Model ----
(***************************************************************************)
(* Frame delivery and frame recording of the PyQt6 stereo-vision console:  *)
(* FrameRecorder (ui/app/recorder.py), FrameProvider                       *)
(* (ui/app/frame_provider.py) and the MainWindow handlers that drive them  *)
(* (ui/app/main.py).                                                       *)
(*                                                                         *)
(* Three specifications share the variables:                               *)
(*   SpecRec  the FrameRecorder object driven directly by a caller that    *)
(*            starts a session only when none is active;                   *)
(*   SpecProv the FrameProvider object alone, with or without a capture,   *)
(*            at small frame sizes whose pixels are modelled;              *)
(*   Spec     the MainWindow, whose handlers call the same operators.      *)
(***************************************************************************)
EXTENDS Integers, Sequences, FiniteSets, TLC

VARIABLES
    recorder,           \* FrameRecorder fields: _writer, _ts_file, _start_time, _frame_size
    encoders,           \* every cv2.VideoWriter that opened, in order of creation
    video,              \* contents of <dir>/recording.mp4
    logs,               \* every file object opened on a timestamps.csv
    csv,                \* contents of <dir>/timestamps.csv, a sequence of lines
    host_codecs,        \* the fourcc codes cv2.VideoWriter can open on this host
    now,                \* the wall clock read by time.time()
    last,               \* the most recent FrameRecorder call and how it ended
    s,                  \* UiSettings
    cap,                \* FrameProvider._cap
    timer,              \* MainWindow.timer: [active, interval]
    stats_timer,        \* MainWindow.stats_timer is active
    btn_preview,        \* text of btn_preview
    btn_record,         \* btn_record: [text, enabled]
    chk,                \* check boxes: [show_right, show_disp]
    frame_idx,          \* MainWindow._frame_idx
    closed,             \* closeEvent has run
    edits,              \* settings changes the operator has made
    use_webcam,         \* FrameProvider.use_webcam
    got                 \* the most recent FrameProvider.get_frame call and what it returned

recVars == <<recorder, encoders, video, logs, csv, last>>
uiVars == <<s, cap, timer, stats_timer, btn_preview, btn_record, chk, frame_idx, closed,
           edits>>
vars == <<recorder, encoders, video, logs, csv, host_codecs, now, last,
          s, cap, timer, stats_timer, btn_preview, btn_record, chk, frame_idx, closed,
          edits, use_webcam, got>>

----------------------------------------------------------------------------
(* Bounds of the model *)

MaxSessions == 2        \* VideoWriters opened in one run
MaxFrames == 2          \* write calls and preview ticks in one run
MaxTime == 2            \* last reading of the clock
MaxEdits == 1           \* settings changes by the operator in one run
MaxWidth == 20          \* widest base panel whose pixels are modelled
MaxHeight == 2          \* tallest base panel whose pixels are modelled

Dirs == {"a", "b"}      \* output directories a caller can name

----------------------------------------------------------------------------
(* Values *)

None == 0               \* Python None, for the fields that otherwise hold a handle or a time
NoSize == <<>>          \* Python None, for _frame_size

fourcc_candidates == <<"avc1", "H264", "mp4v">>

\* A directory without recording.mp4.
NoVideo == [fourcc |-> "", fps |-> 0, frame_size |-> NoSize, frames |-> <<>>]

HeaderLine == <<"frame_idx,unix_time">>
Row(idx, t) == <<idx, t>>

resolutions == <<<<640, 480>>, <<848, 480>>, <<960, 540>>, <<1280, 720>>>>

DefaultSettings ==
    [target_fps |-> 30, show_disparity |-> TRUE, show_right |-> TRUE,
     record_fps |-> 30, width |-> 848, height |-> 480]

RecordConfig(out_dir, fps) == [out_dir |-> out_dir, fps |-> fps]

NewRecorder ==
    [writer |-> None, ts_file |-> None, start_time |-> None, frame_size |-> NoSize]

is_recording(r) == r.writer # None

SeqRange(q) == {q[i] : i \in 1..Len(q)}

----------------------------------------------------------------------------
(* FrameProvider *)

\* The panels of the synthetic frame, left to right.
\* The mutant of parts that shows the difference panel only beside the
\* secondary one.
parts_nested(st) ==
    <<"base">> \o (IF st.show_right
                   THEN <<"right">> \o (IF st.show_disparity THEN <<"disp">> ELSE <<>>)
                   ELSE <<>>)

\* The panels get_frame stacks, by the names of its locals.
parts(st) ==
    <<"base">> \o (IF st.show_right THEN <<"right">> ELSE <<>>)
               \o (IF st.show_disparity THEN <<"disp">> ELSE <<>>)

\* np.hstack of the panels: each is height x width.
hstack(ps, w, h) == [w |-> w * Len(ps), h |-> h, parts |-> ps]

\* What cap.read() can return: (ok, frame).
NoFrame == [w |-> 0, h |-> 0, parts |-> <<>>]
CapReads ==
    {[ok |-> FALSE, frame |-> NoFrame],
     [ok |-> TRUE, frame |-> NoFrame],
     [ok |-> TRUE, frame |-> [w |-> 640, h |-> 480, parts |-> <<"capture">>]]}

\* get_frame reads the capture only when there is one.
NoRead == [ok |-> FALSE, frame |-> NoFrame]
Reads(c) == IF c # None THEN CapReads ELSE {NoRead}

\* _make_overlay burns "<width>x<height>" of the frame it is given into it.
make_overlay(frame) ==
    [w |-> frame.w, h |-> frame.h, parts |-> frame.parts, label |-> <<frame.w, frame.h>>]

\* The mutant of get_frame that trusts ok alone.
get_frame_unchecked(st, c, read) ==
    IF c # None /\ read.ok
    THEN IF read.frame # NoFrame THEN make_overlay(read.frame) ELSE NoFrame
    ELSE make_overlay(hstack(parts(st), st.width, st.height))

\* The shape of the frame get_frame returns.
get_frame(st, c, read) ==
    IF c # None /\ read.ok /\ read.frame # NoFrame
    THEN make_overlay(read.frame)
    ELSE make_overlay(hstack(parts(st), st.width, st.height))

\* Pixels are BGR triples; a panel is a sequence of rows of pixels.
black == <<0, 0, 0>>
yellow == <<0, 255, 255>>

\* What cv2.circle draws into a row of the zeroed base: columns lo..hi.
circle_row(w, lo, hi) == [x \in 1..w |-> IF lo <= x /\ x <= hi THEN yellow ELSE black]

\* Base panels of w x h pixels: the circle cuts the first row not at all,
\* in its first pixel, in its last pixel or in all of them, and no other
\* row.
BasePanels(w, h) ==
    {[y \in 1..h |-> IF y = 1 THEN circle_row(w, lo, hi) ELSE circle_row(w, 1, 0)] :
        lo \in {1, w}, hi \in {0, 1, w}}

roll_shift == 18

\* The mutant of np_roll that shifts towards the left.
np_roll_left(a, shift) ==
    [y \in 1..Len(a) |->
        LET n == Len(a[y])
            off == (0 - shift) % n
        IN  SubSeq(a[y], n - off + 1, n) \o SubSeq(a[y], 1, n - off)]

\* np.roll(a, shift, axis=1): in every row the last shift mod n pixels come
\* first, followed by the others.
np_roll(a, shift) ==
    [y \in 1..Len(a) |->
        LET n == Len(a[y])
            off == shift % n
        IN  SubSeq(a[y], n - off + 1, n) \o SubSeq(a[y], 1, n - off)]

abs(i) == IF i < 0 THEN 0 - i ELSE i

\* cv2.absdiff, per pixel and channel.
absdiff(a, b) ==
    [y \in 1..Len(a) |-> [x \in 1..Len(a[y]) |->
        [c \in 1..3 |-> abs(a[y][x][c] - b[y][x][c])]]]

\* cv2.cvtColor(..., COLOR_BGR2GRAY): one intensity per pixel, in the fixed
\* point arithmetic of OpenCV.
cvtColor_gray(a) ==
    [y \in 1..Len(a) |-> [x \in 1..Len(a[y]) |->
        (a[y][x][1] * 1868 + a[y][x][2] * 9617 + a[y][x][3] * 4899 + 8192) \div 16384]]

\* cv2.applyColorMap(..., COLORMAP_TURBO): the colour of the table for each
\* intensity, written <<intensity>>.
applyColorMap(g) == [y \in 1..Len(g) |-> [x \in 1..Len(g[y]) |-> <<g[y][x]>>]]

\* np.hstack of panels of pixels.
RECURSIVE hstack_rows(_, _, _)
hstack_rows(panels, y, k) ==
    IF k > Len(panels) THEN <<>> ELSE panels[k][y] \o hstack_rows(panels, y, k + 1)

hstack_pixels(panels) == [y \in 1..Len(panels[1]) |-> hstack_rows(panels, y, 1)]

\* The synthetic path of get_frame from the base it has drawn: the panels
\* it computes and the pixels it stacks.
synthetic(base, st) ==
    LET right == np_roll(base, roll_shift)
        disp == applyColorMap(cvtColor_gray(absdiff(base, right)))
        named == [base |-> base, right |-> right, disp |-> disp]
        ps == parts(st)
    IN  [base |-> base, right |-> right,
         pixels |-> hstack_pixels([k \in 1..Len(ps) |-> named[ps[k]]])]

\* A get_frame call as its caller sees it: the settings, the capture and
\* its answer, and the frame returned.
NoCall ==
    [st |-> DefaultSettings, cap |-> None, read |-> NoRead, frame |-> NoFrame,
     base |-> <<>>, right |-> <<>>, pixels |-> <<>>]

----------------------------------------------------------------------------
(* FrameRecorder *)

\* A call of the recorder as its caller sees it: the arguments, what the
\* host answered (avail), what the call found (is_recording before it, the
\* lines of timestamps.csv before it) and how it ended (the exception
\* raised, the codecs tried, the handles closed, in order).
Call(op) ==
    [op |-> op, raised |-> "", tried |-> <<>>, closed |-> <<>>,
     dir |-> "", size |-> NoSize, idx |-> None, avail |-> {},
     recording |-> is_recording(recorder), found |-> <<>>]

\* The mutant of open_first that falls back to the last candidate unchecked.
RECURSIVE open_first_fallback(_, _, _)
open_first_fallback(cands, i, avail) ==
    IF i > Len(cands)
    THEN [fcc |-> cands[Len(cands)], tried |-> cands]
    ELSE IF cands[i] \in avail
         THEN [fcc |-> cands[i], tried |-> SubSeq(cands, 1, i)]
         ELSE open_first_fallback(cands, i + 1, avail)

\* The mutant of open_first without the break: the last opener wins.
RECURSIVE open_last(_, _, _)
open_last(cands, i, avail) ==
    IF i > Len(cands)
    THEN [fcc |-> "", tried |-> cands]
    ELSE LET rest == open_last(cands, i + 1, avail)
         IN  IF rest.fcc = "" /\ cands[i] \in avail
             THEN [fcc |-> cands[i], tried |-> cands]
             ELSE rest

\* The loop over the candidates: the first one the host opens ends it.
RECURSIVE open_first(_, _, _)
open_first(cands, i, avail) ==
    IF i > Len(cands)
    THEN [fcc |-> "", tried |-> cands]
    ELSE IF cands[i] \in avail
         THEN [fcc |-> cands[i], tried |-> SubSeq(cands, 1, i)]
         ELSE open_first(cands, i + 1, avail)

\* The mutant of open_w: open(path, "a").
open_a(content) == content

\* open(path, "w"): what the file holds once it is open.
open_w(content) == <<>>

\* start(cfg, frame_size) on a host where the codecs in host.avail open,
\* out_dir.mkdir succeeds iff host.mkdirOk and open(timestamps.csv) iff
\* host.openOk. A VideoWriter that opens starts recording.mp4 anew; the
\* ones that do not open are dropped.
\* The result holds the new value of every variable the call can change.
start(cfg, frame_size, host) ==
    LET call == [Call("start") EXCEPT !.dir = cfg.out_dir, !.size = frame_size,
                                      !.avail = host.avail,
                                      !.found = csv[cfg.out_dir]]
        same == [recorder |-> recorder, encoders |-> encoders, video |-> video,
                 logs |-> logs, csv |-> csv, last |-> call]
        r1 == [recorder EXCEPT !.frame_size = frame_size]
        o == open_first(fourcc_candidates, 1, host.avail)
        enc == [dir |-> cfg.out_dir, open |-> TRUE, releases |-> 0]
        mp4 == [fourcc |-> o.fcc, fps |-> cfg.fps, frame_size |-> frame_size,
                frames |-> <<>>]
        r2 == [r1 EXCEPT !.writer = Len(encoders) + 1]
        log == [dir |-> cfg.out_dir, open |-> TRUE, closes |-> 0]
        r3 == [r2 EXCEPT !.ts_file = Len(logs) + 1, !.start_time = now]
    IN  IF ~host.mkdirOk
        THEN [same EXCEPT !.last.raised = "OSError"]
        ELSE IF o.fcc = ""
        THEN [same EXCEPT !.recorder = r1,
                          !.last.raised = "RuntimeError", !.last.tried = o.tried]
        ELSE IF ~host.openOk
        THEN [same EXCEPT !.recorder = r2,
                          !.encoders = Append(encoders, enc),
                          !.video[cfg.out_dir] = mp4,
                          !.last.raised = "OSError", !.last.tried = o.tried]
        ELSE [recorder |-> r3,
              encoders |-> Append(encoders, enc),
              video |-> [video EXCEPT ![cfg.out_dir] = mp4],
              logs |-> Append(logs, log),
              csv |-> [csv EXCEPT ![cfg.out_dir] = Append(open_w(@), HeaderLine)],
              last |-> [call EXCEPT !.tried = o.tried]]

\* The mutant of write that logs the time since start.
write_since_start(frame, idx) ==
    LET call == [Call("write") EXCEPT !.size = <<frame.w, frame.h>>, !.idx = idx]
        same == [recorder |-> recorder, encoders |-> encoders, video |-> video,
                 logs |-> logs, csv |-> csv, last |-> call]
    IN  IF recorder.writer = None \/ recorder.ts_file = None
        THEN same
        ELSE [same EXCEPT
                !.video[encoders[recorder.writer].dir].frames = Append(@, frame),
                !.csv[logs[recorder.ts_file].dir] =
                    Append(@, Row(idx, now - recorder.start_time))]

\* The mutant of write without the guard: None has no write method.
write_no_guard(frame, idx) ==
    LET call == [Call("write") EXCEPT !.size = <<frame.w, frame.h>>, !.idx = idx]
        same == [recorder |-> recorder, encoders |-> encoders, video |-> video,
                 logs |-> logs, csv |-> csv, last |-> call]
    IN  IF recorder.writer = None
        THEN [same EXCEPT !.last.raised = "AttributeError"]
        ELSE IF recorder.ts_file = None
        THEN [same EXCEPT
                !.video[encoders[recorder.writer].dir].frames = Append(@, frame),
                !.last.raised = "AttributeError"]
        ELSE [same EXCEPT
                !.video[encoders[recorder.writer].dir].frames = Append(@, frame),
                !.csv[logs[recorder.ts_file].dir] = Append(@, Row(idx, now))]

\* The mutant of write that logs no row for the first frame of a session.
write_skip_first(frame, idx) ==
    LET call == [Call("write") EXCEPT !.size = <<frame.w, frame.h>>, !.idx = idx]
        same == [recorder |-> recorder, encoders |-> encoders, video |-> video,
                 logs |-> logs, csv |-> csv, last |-> call]
    IN  IF recorder.writer = None \/ recorder.ts_file = None
        THEN same
        ELSE IF video[encoders[recorder.writer].dir].frames = <<>>
        THEN [same EXCEPT
                !.video[encoders[recorder.writer].dir].frames = Append(@, frame)]
        ELSE [same EXCEPT
                !.video[encoders[recorder.writer].dir].frames = Append(@, frame),
                !.csv[logs[recorder.ts_file].dir] = Append(@, Row(idx, now))]

\* write(frame_bgr, frame_idx)
write(frame, idx) ==
    LET call == [Call("write") EXCEPT !.size = <<frame.w, frame.h>>, !.idx = idx]
        same == [recorder |-> recorder, encoders |-> encoders, video |-> video,
                 logs |-> logs, csv |-> csv, last |-> call]
    IN  IF recorder.writer = None \/ recorder.ts_file = None
        THEN same
        ELSE [same EXCEPT
                !.video[encoders[recorder.writer].dir].frames = Append(@, frame),
                !.csv[logs[recorder.ts_file].dir] = Append(@, Row(idx, now))]

\* The mutant of stop that releases the writer and keeps the reference.
stop_keep_writer ==
    LET w == recorder.writer
        t == recorder.ts_file
        released == IF w # None
                    THEN [encoders EXCEPT ![w].releases = @ + 1, ![w].open = FALSE]
                    ELSE encoders
        closedlog == IF t # None
                     THEN [logs EXCEPT ![t].closes = @ + 1, ![t].open = FALSE]
                     ELSE logs
        order == (IF w # None THEN <<"writer">> ELSE <<>>)
                 \o (IF t # None THEN <<"ts_file">> ELSE <<>>)
    IN  [recorder |-> [writer |-> w, ts_file |-> None,
                       start_time |-> None, frame_size |-> NoSize],
         encoders |-> released,
         video |-> video,
         logs |-> closedlog,
         csv |-> csv,
         last |-> [Call("stop") EXCEPT !.closed = order]]

\* The mutant of stop that closes the log before it releases the writer.
stop_log_first ==
    LET w == recorder.writer
        t == recorder.ts_file
        released == IF w # None
                    THEN [encoders EXCEPT ![w].releases = @ + 1, ![w].open = FALSE]
                    ELSE encoders
        closedlog == IF t # None
                     THEN [logs EXCEPT ![t].closes = @ + 1, ![t].open = FALSE]
                     ELSE logs
        order == (IF t # None THEN <<"ts_file">> ELSE <<>>)
                 \o (IF w # None THEN <<"writer">> ELSE <<>>)
    IN  [recorder |-> [writer |-> None, ts_file |-> None,
                       start_time |-> None, frame_size |-> NoSize],
         encoders |-> released,
         video |-> video,
         logs |-> closedlog,
         csv |-> csv,
         last |-> [Call("stop") EXCEPT !.closed = order]]

\* stop()
stop ==
    LET w == recorder.writer
        t == recorder.ts_file
        released == IF w # None
                    THEN [encoders EXCEPT ![w].releases = @ + 1, ![w].open = FALSE]
                    ELSE encoders
        closedlog == IF t # None
                     THEN [logs EXCEPT ![t].closes = @ + 1, ![t].open = FALSE]
                     ELSE logs
        order == (IF w # None THEN <<"writer">> ELSE <<>>)
                 \o (IF t # None THEN <<"ts_file">> ELSE <<>>)
    IN  [recorder |-> [writer |-> None, ts_file |-> None,
                       start_time |-> None, frame_size |-> NoSize],
         encoders |-> released,
         video |-> video,
         logs |-> closedlog,
         csv |-> csv,
         last |-> [Call("stop") EXCEPT !.closed = order]]

\* The variables take the values a call left.
Becomes(r) ==
    /\ recorder' = r.recorder
    /\ encoders' = r.encoders
    /\ video' = r.video
    /\ logs' = r.logs
    /\ csv' = r.csv
    /\ last' = r.last

\* What the host can answer to one start call.
\* A VideoWriter opens with a codec of the host, or with none when the
\* path cannot be written.
Hosts == [avail : {host_codecs, {}}, mkdirOk : BOOLEAN, openOk : BOOLEAN]

----------------------------------------------------------------------------
(* The state after construction *)

InitRest ==
    /\ recorder = NewRecorder
    /\ encoders = <<>>
    /\ video = [d \in Dirs |-> NoVideo]
    /\ logs = <<>>
    /\ csv = [d \in Dirs |-> <<>>]
    /\ now = 1
    /\ last = Call("init")
    /\ timer = [active |-> FALSE, interval |-> 0]
    /\ stats_timer = TRUE
    /\ btn_preview = "Start Preview"
    /\ btn_record = [text |-> "Start Recording", enabled |-> FALSE]
    /\ chk = [show_right |-> TRUE, show_disp |-> TRUE]
    /\ frame_idx = 0
    /\ closed = FALSE
    /\ edits = 0
    /\ got = NoCall

\* MainWindow builds its settings with the defaults and its provider
\* without a capture.
InitObjects ==
    /\ InitRest
    /\ s = DefaultSettings
    /\ use_webcam = FALSE
    /\ cap = None

\* Hosts of the recorder alone: any set of the codecs may open.
InitRec ==
    /\ host_codecs \in SUBSET SeqRange(fourcc_candidates)
    /\ InitObjects

\* Time passes.
Elapse ==
    /\ now < MaxTime
    /\ now' = now + 1
    /\ UNCHANGED <<recVars, got, use_webcam, host_codecs, uiVars>>

\* The system clock is set back: time.time() is the wall clock, which an
\* administrator or a time synchronisation can step to an earlier reading.
\* It is a step of SpecRec, where the readings of the clock are compared;
\* no handler of MainWindow compares them.
SetBack ==
    /\ \E t \in 1..(now - 1) : now' = t
    /\ UNCHANGED <<recVars, got, use_webcam, host_codecs, uiVars>>

----------------------------------------------------------------------------
(* SpecRec: a FrameRecorder and its caller *)

\* The answers that differ: the codecs are not asked when mkdir fails, nor
\* the log opened when no codec opens.
Answers ==
    {h \in Hosts : /\ ~h.mkdirOk => (h.avail = {} /\ h.openOk)
                   /\ h.avail = {} => h.openOk}

\* Frames a caller can hand to write.
SomeFrames == {hstack(<<"base">>, 640, 480)}

\* The caller's variables: it counts its write calls in frame_idx.
callerVars == <<s, cap, timer, stats_timer, btn_preview, btn_record, chk, closed, edits>>

RecStart ==
    /\ ~is_recording(recorder)
    /\ Len(encoders) < MaxSessions
    /\ \E d \in Dirs, f \in SomeFrames, host \in Answers :
          Becomes(start(RecordConfig(d, 30), <<f.w, f.h>>, host))
    /\ UNCHANGED <<got, use_webcam, host_codecs, now, uiVars>>

RecWrite ==
    /\ frame_idx < MaxFrames
    /\ \E f \in SomeFrames : Becomes(write(f, frame_idx))
    /\ frame_idx' = frame_idx + 1
    /\ UNCHANGED <<got, use_webcam, host_codecs, now, callerVars>>

RecStop ==
    /\ Becomes(stop)
    /\ UNCHANGED <<got, use_webcam, host_codecs, now, uiVars>>

NextRec == RecStart \/ RecWrite \/ RecStop \/ Elapse \/ SetBack

SpecRec == InitRec /\ [][NextRec]_vars

----------------------------------------------------------------------------
(* SpecProv: a FrameProvider and its caller *)

\* The cv2.VideoCapture of a provider that was built with use_webcam.
Capture == 1

\* Settings a provider can be built with.
ProvSettings ==
    {[DefaultSettings EXCEPT !.width = w, !.height = h,
                             !.show_right = r, !.show_disparity = d] :
        w \in 1..MaxWidth, h \in 1..MaxHeight, r \in BOOLEAN, d \in BOOLEAN}

InitProv ==
    /\ InitRest
    /\ host_codecs = {}
    /\ s \in ProvSettings
    /\ use_webcam \in BOOLEAN
    /\ cap = IF use_webcam THEN Capture ELSE None

provCallerVars ==
    <<recVars, host_codecs, now, s, timer, stats_timer, btn_preview, btn_record, chk,
      frame_idx, closed, edits, use_webcam>>

\* A get_frame call: the capture answers when there is one, and the base
\* is what the drawing calls leave on the synthetic path.
ProvGetFrame ==
    /\ \E read \in Reads(cap), base \in BasePanels(s.width, s.height) :
          LET frame == get_frame(s, cap, read)
              drawn == IF frame.parts # <<>> /\ frame.parts[1] = "base"
                       THEN synthetic(base, s)
                       ELSE [base |-> <<>>, right |-> <<>>, pixels |-> <<>>]
          IN  got' = [st |-> s, cap |-> cap, read |-> read, frame |-> frame,
                      base |-> drawn.base, right |-> drawn.right,
                      pixels |-> drawn.pixels]
    /\ UNCHANGED <<provCallerVars, cap>>

\* close releases the capture if there is one and forgets it.
ProvClose ==
    /\ cap' = None
    /\ UNCHANGED <<provCallerVars, got>>

NextProv == ProvGetFrame \/ ProvClose

SpecProv == InitProv /\ [][NextProv]_vars

----------------------------------------------------------------------------
(* Spec: the MainWindow *)

\* Hosts of the application: only the last codec opens, or all do.
UiHosts == {{"mp4v"}, SeqRange(fourcc_candidates)}

\* The directory the dialog returns exists: mkdir has nothing to do.
UiAnswers == {h \in Hosts : h.mkdirOk /\ (h.avail = {} => h.openOk)}

\* Directories the operator picks in the dialog.
UiDirs == {"a"}

Init ==
    /\ host_codecs \in UiHosts
    /\ InitObjects

\* Values the operator gives the spin box and the combo box.
FpsChoices == {30, 120}
ResChoices == {1, 2}

\* int(1000 / max(1, target_fps))
interval_ms(fps) == 1000 \div (IF fps > 1 THEN fps ELSE 1)

\* The mutant of toggle_preview that restarts the frame index with the
\* preview.
toggle_preview_restart_idx ==
    /\ ~closed
    /\ IF timer.active
       THEN /\ timer' = [timer EXCEPT !.active = FALSE]
            /\ btn_preview' = "Start Preview"
            /\ btn_record' = [btn_record EXCEPT !.enabled = FALSE]
            /\ frame_idx' = frame_idx
       ELSE /\ timer' = [active |-> TRUE, interval |-> interval_ms(s.target_fps)]
            /\ btn_preview' = "Stop Preview"
            /\ btn_record' = [btn_record EXCEPT !.enabled = TRUE]
            /\ frame_idx' = 0
    /\ UNCHANGED <<recVars, got, use_webcam, host_codecs, now, s, cap, stats_timer, chk, closed,
                   edits>>

\* The mutant of toggle_preview that ends the recording with the preview.
toggle_preview_stops_recorder ==
    /\ ~closed
    /\ IF timer.active
       THEN /\ timer' = [timer EXCEPT !.active = FALSE]
            /\ btn_preview' = "Start Preview"
            /\ btn_record' = [text |-> "Start Recording", enabled |-> FALSE]
            /\ IF is_recording(recorder) THEN Becomes(stop) ELSE UNCHANGED recVars
       ELSE /\ timer' = [active |-> TRUE, interval |-> interval_ms(s.target_fps)]
            /\ btn_preview' = "Stop Preview"
            /\ btn_record' = [btn_record EXCEPT !.enabled = TRUE]
            /\ UNCHANGED recVars
    /\ UNCHANGED <<got, use_webcam, host_codecs, now, s, cap, stats_timer, chk, frame_idx, closed,
                   edits>>

\* clicked of btn_preview.
toggle_preview ==
    /\ ~closed
    /\ IF timer.active
       THEN /\ timer' = [timer EXCEPT !.active = FALSE]
            /\ btn_preview' = "Start Preview"
            /\ btn_record' = [btn_record EXCEPT !.enabled = FALSE]
       ELSE /\ timer' = [active |-> TRUE, interval |-> interval_ms(s.target_fps)]
            /\ btn_preview' = "Stop Preview"
            /\ btn_record' = [btn_record EXCEPT !.enabled = TRUE]
    /\ UNCHANGED <<recVars, got, use_webcam, host_codecs, now, s, cap, stats_timer, chk, frame_idx, closed,
                   edits>>

\* The clicked handler of btn_record, which takes the stop branch iff
\* `recording`. out_dir is what the directory dialog returns ("" when it is
\* cancelled); an exception of start leaves the handler before setText.
on_record_clicked(recording) ==
    IF ~timer.active
    THEN UNCHANGED <<recVars, btn_record>>
    ELSE IF recording
    THEN /\ Becomes(stop)
         /\ btn_record' = [btn_record EXCEPT !.text = "Start Recording"]
    ELSE \E out_dir \in UiDirs \cup {""} :
            IF out_dir = ""
            THEN UNCHANGED <<recVars, btn_record>>
            ELSE \E read \in Reads(cap), host \in UiAnswers :
                    LET frame == get_frame(s, cap, read)
                        cfg == RecordConfig(out_dir, s.record_fps)
                        r == start(cfg, <<frame.w, frame.h>>, host)
                    IN  /\ Len(encoders) < MaxSessions
                        /\ Becomes(r)
                        /\ btn_record' = IF r.last.raised = ""
                                         THEN [btn_record EXCEPT !.text = "Stop Recording"]
                                         ELSE btn_record

\* The mutant of toggle_recording that never looks at is_recording.
toggle_recording_no_check ==
    /\ ~closed
    /\ btn_record.enabled
    /\ on_record_clicked(FALSE)
    /\ UNCHANGED <<got, use_webcam, host_codecs, now, s, cap, timer, stats_timer, btn_preview, chk,
                   frame_idx, closed, edits>>

toggle_recording ==
    /\ ~closed
    /\ btn_record.enabled
    /\ on_record_clicked(is_recording(recorder))
    /\ UNCHANGED <<got, use_webcam, host_codecs, now, s, cap, timer, stats_timer, btn_preview, chk,
                   frame_idx, closed, edits>>

\* stateChanged of one of the two check boxes.
update_view_flags ==
    /\ ~closed
    /\ edits < MaxEdits
    /\ edits' = edits + 1
    /\ \E box \in {"show_right", "show_disp"} :
          /\ chk' = [chk EXCEPT ![box] = ~@]
          /\ s' = [s EXCEPT !.show_right = chk'.show_right,
                            !.show_disparity = chk'.show_disp]
    /\ UNCHANGED <<recVars, got, use_webcam, host_codecs, now, cap, timer, stats_timer, btn_preview,
                   btn_record, frame_idx, closed>>

\* The mutant of update_fps that leaves a running timer as it is.
update_fps_keep_interval ==
    /\ ~closed
    /\ edits < MaxEdits
    /\ edits' = edits + 1
    /\ \E v \in FpsChoices \ {s.target_fps} :
          /\ s' = [s EXCEPT !.target_fps = v]
          /\ timer' = timer
    /\ UNCHANGED <<recVars, got, use_webcam, host_codecs, now, cap, stats_timer, btn_preview, btn_record,
                   chk, frame_idx, closed>>

\* valueChanged of spin_fps.
update_fps ==
    /\ ~closed
    /\ edits < MaxEdits
    /\ edits' = edits + 1
    /\ \E v \in FpsChoices \ {s.target_fps} :
          /\ s' = [s EXCEPT !.target_fps = v]
          /\ timer' = IF timer.active
                      THEN [timer EXCEPT !.interval = interval_ms(v)]
                      ELSE timer
    /\ UNCHANGED <<recVars, got, use_webcam, host_codecs, now, cap, stats_timer, btn_preview, btn_record,
                   chk, frame_idx, closed>>

update_resolution ==
    /\ ~closed
    /\ edits < MaxEdits
    /\ edits' = edits + 1
    /\ \E i \in ResChoices :
          /\ <<s.width, s.height>> # resolutions[i]
          /\ s' = [s EXCEPT !.width = resolutions[i][1], !.height = resolutions[i][2]]
    /\ UNCHANGED <<recVars, got, use_webcam, host_codecs, now, cap, timer, stats_timer, btn_preview,
                   btn_record, chk, frame_idx, closed>>

\* The mutant of tick_preview that counts the frame before it forwards it.
tick_preview_count_first ==
    /\ ~closed
    /\ timer.active
    /\ frame_idx < MaxFrames
    /\ \E read \in Reads(cap) :
          LET frame == get_frame(s, cap, read)
          IN  IF is_recording(recorder)
              THEN Becomes(write(frame, frame_idx + 1))
              ELSE UNCHANGED recVars
    /\ frame_idx' = frame_idx + 1
    /\ UNCHANGED <<got, use_webcam, host_codecs, now, s, cap, timer, stats_timer, btn_preview, btn_record,
                   chk, closed, edits>>

\* timeout of the preview timer. The pixmap of the label and the counters
\* of the displayed frame rate are not part of the model.
tick_preview ==
    /\ ~closed
    /\ timer.active
    /\ frame_idx < MaxFrames
    /\ \E read \in Reads(cap) :
          LET frame == get_frame(s, cap, read)
          IN  IF is_recording(recorder)
              THEN Becomes(write(frame, frame_idx))
              ELSE UNCHANGED recVars
    /\ frame_idx' = frame_idx + 1
    /\ UNCHANGED <<got, use_webcam, host_codecs, now, s, cap, timer, stats_timer, btn_preview, btn_record,
                   chk, closed, edits>>

\* The mutant of closeEvent that leaves the recorder as it is.
closeEvent_no_stop ==
    /\ ~closed
    /\ timer' = [timer EXCEPT !.active = FALSE]
    /\ stats_timer' = FALSE
    /\ UNCHANGED recVars
    /\ cap' = None
    /\ closed' = TRUE
    /\ UNCHANGED <<got, use_webcam, host_codecs, now, s, btn_preview, btn_record, chk, frame_idx, edits>>

closeEvent ==
    /\ ~closed
    /\ timer' = [timer EXCEPT !.active = FALSE]
    /\ stats_timer' = FALSE
    /\ IF is_recording(recorder) THEN Becomes(stop) ELSE UNCHANGED recVars
    /\ cap' = None
    /\ closed' = TRUE
    /\ UNCHANGED <<got, use_webcam, host_codecs, now, s, btn_preview, btn_record, chk, frame_idx, edits>>

Next ==
    \/ toggle_preview
    \/ toggle_recording
    \/ update_view_flags
    \/ update_fps
    \/ update_resolution
    \/ tick_preview
    \/ closeEvent
    \/ Elapse

Spec == Init /\ [][Next]_vars

----------------------------------------------------------------------------
(* Properties *)

Idle == ~is_recording(recorder)
Armed == recorder.writer # None /\ recorder.ts_file # None

\* A step of SpecRec that is a call of start, write or stop: the caller
\* counts its write calls in frame_idx, and no call moves the clock.
StartCall == last'.op = "start" /\ now' = now /\ frame_idx' = frame_idx
WriteCall == last'.op = "write" /\ frame_idx' = frame_idx + 1
StopCall == last'.op = "stop" /\ now' = now /\ frame_idx' = frame_idx

Files == <<video, csv>>
Handles == <<encoders, logs>>

FrameSize(f) == <<f.w, f.h>>

\* C1: every frame written into a recording has the frame_size that start
\* was given for it, whatever the operator changes while the recorder is
\* armed.
C1_FrameSizeOfSession ==
    \A d \in Dirs : \A i \in 1..Len(video[d].frames) :
        FrameSize(video[d].frames[i]) = video[d].frame_size

\* C2: a start for which no candidate opens ends with an error and leaves
\* an idle recorder idle: no handle is held or was opened, and no
\* timestamps.csv is created or written.
C2_NoCodecStaysIdle ==
    [][(StartCall /\ Idle /\ last'.avail \cap SeqRange(fourcc_candidates) = {})
         => /\ last'.raised # ""
            /\ ~is_recording(recorder')
            /\ recorder'.writer = None /\ recorder'.ts_file = None
            /\ UNCHANGED Handles
            /\ csv' = csv]_vars

\* C2 witness: no codec opened for a start made after an earlier session
\* had left a timestamps.csv.
C2_Witness ==
    /\ last.op = "start" /\ last.raised = "RuntimeError"
    /\ last.tried = fourcc_candidates
    /\ last.found # <<>>

\* C3: write on an idle recorder raises nothing, writes nothing to an
\* encoder or a log, and leaves the recorder as it was.
C3_IdleWriteIsNoOp ==
    [][(WriteCall /\ Idle)
         => /\ last'.raised = ""
            /\ recorder' = recorder
            /\ UNCHANGED Handles
            /\ UNCHANGED Files]_vars

\* C3 witness: write was called after a session had been stopped, and
\* after a start had failed.
C3_Witness ==
    /\ last.op = "write" /\ ~last.recording
    /\ \E i \in 1..Len(encoders) : encoders[i].releases = 1
    /\ recorder.frame_size # NoSize

\* C4: stop raises nothing and leaves the recorder idle; no handle is ever
\* closed twice; on an idle recorder it closes nothing, and a stop that
\* follows a stop changes nothing.
C4_StopIdempotent ==
    [][StopCall
         => /\ last'.raised = ""
            /\ ~is_recording(recorder') /\ recorder'.ts_file = None
            /\ \A i \in 1..Len(encoders') : encoders'[i].releases <= 1
            /\ \A i \in 1..Len(logs') : logs'[i].closes <= 1
            /\ (Idle /\ recorder.ts_file = None)
                 => (last'.closed = <<>> /\ UNCHANGED Handles /\ UNCHANGED Files)
            /\ last.op = "stop"
                 => (recorder' = recorder /\ UNCHANGED Handles /\ UNCHANGED Files)]_vars

\* C4 witness: a stop that closed nothing, after a session whose two
\* handles were closed.
C4_Witness ==
    /\ last.op = "stop" /\ last.closed = <<>> /\ ~last.recording
    /\ \E i \in 1..Len(encoders) : encoders[i].releases = 1
    /\ \E i \in 1..Len(logs) : logs[i].closes = 1

\* The rows of a log in which the caller's latest write calls were logged,
\* in order: it passes its running count of them to each.
RowsOfLastWrites(lines, count) ==
    \A j \in 2..Len(lines) : lines[j][1] = count - (Len(lines) - j) - 1

\* C5: a successful start leaves a log that holds the header line alone
\* and an empty recording; each write while armed appends the frame to the
\* recording and one row with its frame_idx to the log; stop changes
\* neither. So a session of N writes ends with N + 1 lines and N frames.
C5_HeaderAndOneRowPerWrite ==
    [][/\ (StartCall /\ last'.raised = "")
            => /\ csv'[last'.dir] = <<HeaderLine>>
               /\ video'[last'.dir].frames = <<>>
       /\ (WriteCall /\ Armed)
            => LET d == logs[recorder.ts_file].dir
               IN  /\ Len(csv'[d]) = Len(csv[d]) + 1
                   /\ SubSeq(csv'[d], 1, Len(csv[d])) = csv[d]
                   /\ csv'[d][Len(csv'[d])][1] = last'.idx
                   /\ Len(video'[d].frames) = Len(video[d].frames) + 1
       /\ StopCall => UNCHANGED Files
       /\ Armed'
            => LET d == logs'[recorder'.ts_file].dir
               IN  /\ csv'[d][1] = HeaderLine
                   /\ Len(csv'[d]) = Len(video'[d].frames) + 1
                   /\ RowsOfLastWrites(csv'[d], frame_idx')]_vars

\* C5 witness: a session of two writes was stopped: three lines, two frames.
C5_Witness ==
    /\ last.op = "stop" /\ last.closed = <<"writer", "ts_file">>
    /\ \E d \in Dirs :
          /\ Len(csv[d]) = 3 /\ csv[d][1] = HeaderLine
          /\ csv[d][2][1] = 0 /\ csv[d][3][1] = 1
          /\ Len(video[d].frames) = 2

\* C6 as claimed: the log is opened for appending, so a successful start
\* keeps the lines it finds and adds its header after them.
C6_AppendsToEarlierLog ==
    (last.op = "start" /\ last.raised = "")
        => csv[last.dir] = Append(last.found, HeaderLine)

\* C6 as amended: the log is opened for writing, so a successful start
\* leaves the header line alone in it, whatever it found; the rows of the
\* session follow the header.
C6_TruncatesEarlierLog ==
    /\ (last.op = "start" /\ last.raised = "") => csv[last.dir] = <<HeaderLine>>
    /\ Armed => csv[logs[recorder.ts_file].dir][1] = HeaderLine

\* C6 witness: a start succeeded in a directory whose log held the rows of
\* an earlier session.
C6_Witness ==
    /\ last.op = "start" /\ last.raised = ""
    /\ Len(last.found) >= 2

\* C7: the recorder holds the encoder handle iff it holds the log handle.
C7_HandlesTogether ==
    (recorder.writer # None) <=> (recorder.ts_file # None)

\* C8: start is never called on a recorder that is recording, and no open
\* handle is left without the recorder's reference to it.
C8_OneSessionAtATime ==
    /\ last.op = "start" => ~last.recording
    /\ \A i \in 1..Len(encoders) : encoders[i].open => recorder.writer = i
    /\ \A i \in 1..Len(logs) : logs[i].open => recorder.ts_file = i

\* C8 witness: a second session is recording after the first was stopped.
C8_Witness ==
    /\ Len(encoders) = 2 /\ Len(logs) = 2
    /\ encoders[1].releases = 1 /\ logs[1].closes = 1
    /\ recorder.writer = 2 /\ recorder.ts_file = 2

IsPrefix(p, q) == Len(p) <= Len(q) /\ SubSeq(q, 1, Len(p)) = p

\* C9: start tries the candidates in their order up to the first that
\* opens and no further, records with that one, and raises the no-codec
\* error iff none opens.
C9_FirstCandidateThatOpens ==
    (last.op = "start" /\ last.tried # <<>>)
        => LET n == Len(last.tried)
               opens == last.avail \cap SeqRange(fourcc_candidates)
           IN  /\ fourcc_candidates = <<"avc1", "H264", "mp4v">>
               /\ IsPrefix(last.tried, fourcc_candidates)
               /\ \A j \in 1..(n - 1) : last.tried[j] \notin opens
               /\ (last.raised = "RuntimeError") <=> (opens = {})
               /\ opens = {} => n = Len(fourcc_candidates)
               /\ opens # {} => /\ last.tried[n] \in opens
                                /\ video[last.dir].fourcc = last.tried[n]
                                /\ is_recording(recorder)

\* C9 witness: the first candidate did not open and the second did.
C9_Witness ==
    /\ last.op = "start" /\ last.raised = ""
    /\ last.tried = <<"avc1", "H264">>
    /\ "mp4v" \in last.avail

\* C10: stop on an armed recorder releases the writer, then closes the log,
\* clears the four fields and leaves the recorder idle.
C10_StopReleasesInOrder ==
    [][(StopCall /\ Armed)
         => /\ last'.closed = <<"writer", "ts_file">>
            /\ ~encoders'[recorder.writer].open
            /\ encoders'[recorder.writer].releases = 1
            /\ ~logs'[recorder.ts_file].open
            /\ logs'[recorder.ts_file].closes = 1
            /\ recorder'.writer = None /\ recorder'.ts_file = None
            /\ recorder'.start_time = None /\ recorder'.frame_size = NoSize
            /\ ~is_recording(recorder')]_vars

\* C10 witness: a stop released a writer and closed a log.
C10_Witness ==
    /\ last.op = "stop" /\ last.recording
    /\ Len(last.closed) = 2
    /\ recorder = NewRecorder

\* C11: once closeEvent has run the recorder is idle, every encoder and
\* every log that was opened is closed, both timers are stopped and the
\* provider holds no capture.
C11_ClosedReleasesAll ==
    closed
        => /\ ~is_recording(recorder)
           /\ recorder.ts_file = None
           /\ \A i \in 1..Len(encoders) : ~encoders[i].open /\ encoders[i].releases = 1
           /\ \A i \in 1..Len(logs) : ~logs[i].open /\ logs[i].closes = 1
           /\ ~timer.active
           /\ ~stats_timer
           /\ cap = None

\* C11 witness: the window was closed while the preview ran and the
\* recorder was armed with a frame written.
C11_Witness ==
    /\ closed
    /\ btn_preview = "Stop Preview"
    /\ last.op = "stop" /\ last.recording /\ Len(last.closed) = 2
    /\ \E d \in Dirs : Len(video[d].frames) >= 1

\* A step of Spec that is a timeout of the preview timer: no other handler
\* moves the frame index.
Tick == frame_idx' # frame_idx

\* C12: a tick moves the frame index by one whether or not the recorder
\* records; iff it records, the tick hands the frame it pulled to write
\* once, with the index the tick began with, and an armed recorder appends
\* that frame and that index; otherwise the recorder and its files are left
\* alone. The indices in a log are strictly increasing.
C12_TickForwardsOnce ==
    [][/\ Tick
            => /\ frame_idx' = frame_idx + 1
               /\ timer.active
               /\ IF is_recording(recorder)
                  THEN /\ last'.op = "write"
                       /\ last'.idx = frame_idx
                       /\ last'.size = <<s.width * Len(parts(s)), s.height>>
                       /\ Armed
                            => LET d == logs[recorder.ts_file].dir
                               IN  /\ Len(video'[d].frames) = Len(video[d].frames) + 1
                                   /\ csv'[d] = Append(csv[d], <<frame_idx, now>>)
                  ELSE UNCHANGED recVars
       /\ \A d \in Dirs : \A j, k \in 2..Len(csv'[d]) :
            j < k => csv'[d][j][1] < csv'[d][k][1]
      ]_vars

\* C12 witness: a tick with an idle recorder, then a tick with an armed
\* one, whose row carries the second index.
C12_Witness ==
    /\ Armed
    /\ last.op = "write" /\ last.idx = 1
    /\ frame_idx = 2
    /\ \E d \in Dirs : csv[d] = <<HeaderLine, <<1, now>>>>

\* A get_frame call has returned, along the synthetic path.
Returned == got # NoCall
Synthetic == Returned /\ got.base # <<>>

Flag(b) == IF b THEN 1 ELSE 0

\* C14: a synthetic frame has the configured height and the base width
\* once, plus once for show_right and once for show_disparity; its rows are
\* the rows of the base, then of the secondary panel if show_right, then of
\* the difference panel if show_disparity, left to right.
C14_PanelsInOrder ==
    Synthetic
        => LET w == got.st.width
               h == got.st.height
               r == Flag(got.st.show_right)
               d == Flag(got.st.show_disparity)
           IN  /\ got.frame.h = h
               /\ got.frame.w = w * (1 + r + d)
               /\ Len(got.pixels) = h
               /\ \A y \in 1..h :
                    /\ Len(got.pixels[y]) = w * (1 + r + d)
                    /\ \A x \in 1..w :
                         /\ got.pixels[y][x] = got.base[y][x]
                         /\ r = 1 => got.pixels[y][w + x] = got.right[y][x]
                         /\ d = 1 => got.pixels[y][w * (1 + r) + x]
                                        = <<cvtColor_gray(absdiff(got.base, got.right))[y][x]>>

\* C14 witness: only show_disparity is set, and the frame is the base
\* beside a difference panel that is not all of one colour.
C14_Witness ==
    /\ Synthetic
    /\ ~got.st.show_right /\ got.st.show_disparity
    /\ got.frame.w = 2 * got.st.width
    /\ got.st.width > 1
    /\ \E x \in 1..got.st.width : got.pixels[1][got.st.width + x] # got.pixels[1][got.st.width + 1]

\* C15: every get_frame call returns a frame: the frame the capture read
\* when there is a capture and its read succeeds with a frame, and a
\* synthetic frame of the configured size in every other case, so also
\* once close has dropped the capture.
C15_AlwaysAFrame ==
    Returned
        => /\ got.frame # NoFrame
           /\ got.frame.w > 0 /\ got.frame.h > 0
           /\ IF got.cap # None /\ got.read.ok /\ got.read.frame # NoFrame
              THEN /\ FrameSize(got.frame) = FrameSize(got.read.frame)
                   /\ got.frame.parts = got.read.frame.parts
              ELSE /\ got.frame.parts[1] = "base"
                   /\ got.frame.h = got.st.height
                   /\ Synthetic

\* C15 witness: a provider built with a capture answers with a synthetic
\* frame after close.
C15_Witness ==
    /\ use_webcam /\ cap = None
    /\ got.cap = None
    /\ Synthetic

\* A second case of C15: the read said ok and gave no frame.
C15_WitnessNoFrame ==
    /\ got.cap # None /\ got.read.ok /\ got.read.frame = NoFrame
    /\ Synthetic

\* C16: in every row the secondary panel has at column x the pixel the
\* base has at column (x - 18) mod w, columns counted from 0.
C16_SecondaryIsShiftedBase ==
    Synthetic
        => /\ Len(got.right) = Len(got.base)
           /\ \A y \in 1..Len(got.base) :
                LET w == Len(got.base[y])
                IN  /\ Len(got.right[y]) = w
                    /\ \A x \in 0..(w - 1) :
                         got.right[y][x + 1] = got.base[y][((x - 18) % w) + 1]

\* C16 witness: a base narrower than the shift whose one lit pixel moves.
C16_Witness ==
    /\ Synthetic
    /\ got.st.width = 5 /\ got.st.height = 2
    /\ got.base[1][1] = yellow /\ got.base[1][2] = black
    /\ got.right[1][4] = yellow

\* A second case of C16: a base wider than the shift.
C16_WitnessWide ==
    /\ Synthetic
    /\ got.st.width = 20
    /\ got.base[1][1] = yellow /\ got.base[1][2] = black
    /\ got.right[1][19] = yellow

\* The rows of the log being written do not decrease in unix_time, and none
\* is later than the clock.
RowsUpToNow ==
    Armed
        => LET lines == csv[logs[recorder.ts_file].dir]
           IN  /\ \A j, k \in 2..Len(lines) : j < k => lines[j][2] <= lines[k][2]
               /\ \A j \in 2..Len(lines) : lines[j][2] <= now

C17_IntervalFollowsFps ==
    timer.active
        => LET fps == IF s.target_fps < 1 THEN 1 ELSE s.target_fps
           IN  /\ timer.interval * fps <= 1000
               /\ 1000 < (timer.interval + 1) * fps

\* C17 witness: the timer runs at the 8 ms of a target_fps of 120 that the
\* operator has set.
C17_Witness ==
    /\ timer.active
    /\ s.target_fps = 120
    /\ timer.interval = 8

\* C18: a successful start leaves a log without rows; every tick with an
\* armed recorder appends one row that carries the frame index of the
\* tick, and nothing else adds a row, whether or not the preview stopped
\* in between. So the rows of a session count up by one from the frame
\* index at its start to the one before the current.
C18_ConsecutiveFrameIdx ==
    [][/\ (last'.op = "start" /\ last' # last /\ last'.raised = "")
            => csv'[last'.dir] = <<HeaderLine>>
       /\ (Tick /\ Armed)
            => LET d == logs[recorder.ts_file].dir
               IN  /\ Len(csv'[d]) = Len(csv[d]) + 1
                   /\ csv'[d][Len(csv'[d])][1] = frame_idx
       /\ ~Tick => (\A d \in Dirs : Len(csv'[d]) <= Len(csv[d]) \/ csv'[d] = <<HeaderLine>>)
       /\ Armed'
            => LET lines == csv'[logs'[recorder'.ts_file].dir]
               IN  /\ \A j \in 2..(Len(lines) - 1) : lines[j + 1][1] = lines[j][1] + 1
                   /\ Len(lines) > 1 => lines[Len(lines)][1] = frame_idx' - 1
      ]_vars

\* C18 witness: the preview is stopped with the recorder armed and one row
\* logged; the next row is written after the restart.
C18_Witness ==
    /\ Armed
    /\ ~timer.active /\ ~closed
    /\ frame_idx = 1
    /\ \E d \in Dirs : Len(csv[d]) = 2 /\ csv[d][2][1] = 0

\* A second case of C18: two rows of one session.
C18_WitnessTwoRows ==
    /\ Armed /\ timer.active
    /\ \E d \in Dirs : Len(csv[d]) = 3 /\ csv[d][2][1] = 0 /\ csv[d][3][1] = 1

\* C19: while the window is open btn_record reads "Stop Recording" exactly
\* when the recorder is recording.
C19_LabelFollowsRecorder ==
    ~closed => (btn_record.text = "Stop Recording" <=> is_recording(recorder))

\* C20: the recorder starts and stops under the handlers of an open window
\* only while the preview timer is active; clicking btn_preview changes
\* nothing of the recorder, its handles or its files; and no step taken
\* with the timer stopped writes a frame or a row; a tick with an armed
\* recorder writes into the session that is open.
C20_RecordingNeedsPreview ==
    [][/\ (~closed' /\ recorder' # recorder) => (timer.active /\ timer'.active)
       /\ (~closed' /\ timer'.active # timer.active) => UNCHANGED recVars
       /\ ~timer.active => UNCHANGED Files
       /\ (~timer.active /\ ~closed') => (UNCHANGED Handles /\ recorder' = recorder)
       /\ (Tick /\ Armed)
            => /\ recorder' = recorder /\ UNCHANGED Handles
               /\ LET d == encoders[recorder.writer].dir
                  IN  Len(video'[d].frames) = Len(video[d].frames) + 1
      ]_vars

\* C20 witness: the preview is stopped with the recorder armed after a
\* frame was written; the recorder stays armed and btn_record is disabled.
C20_Witness ==
    /\ Armed
    /\ ~timer.active /\ ~closed
    /\ btn_record = [text |-> "Stop Recording", enabled |-> FALSE]
    /\ \E d \in Dirs : Len(video[d].frames) = 1

====
